---- MODULE Spec2Model ----
(***************************************************************************)
(* Model of the SAP Help content-acquisition pipeline (sapHelp.ts) and of  *)
(* the content truncator (truncate.ts).                                    *)
(*                                                                         *)
(* A JavaScript string is a sequence of tokens: a token is one character   *)
(* or one literal that the code treats as a unit. The literal "sap-help-"  *)
(* is the token Prefix; it cannot overlap itself, so its occurrences in a  *)
(* string are exactly the Prefix tokens of the sequence.                   *)
(***************************************************************************)
EXTENDS Integers, Sequences, FiniteSets, TLC

\* ------------------------------------------------------------------ bounds
\* number of tool calls (searches and retrievals) ever started
MaxReqs == 2
\* length of the result list a search response carries
MaxResults == 2
\* length of the text handed to truncateContent
MaxContentLength == 52

\* ------------------------------------------------------- JavaScript values
Undefined == <<"undefined">>

Falsy(v) == v = Undefined \/ v = <<>>

\* a || b
OrElse(a, b) == IF Falsy(a) THEN b ELSE a

Range(s) == { s[i] : i \in 1..Len(s) }

Prefix == "sap-help-"

BASE == "https://help.sap.com"

\* String.prototype.replace(pattern, "") with a one-token string pattern:
\* only the first occurrence is replaced, wherever it is.
ReplaceFirst(s, pat) ==
  IF \E i \in 1..Len(s) : s[i] = pat
  THEN LET i == CHOOSE k \in 1..Len(s) : s[k] = pat /\ \A j \in 1..(k - 1) : s[j] # pat
       IN SubSeq(s, 1, i - 1) \o SubSeq(s, i + 1, Len(s))
  ELSE s

\* mutant of ExtractLoio: every occurrence is removed
ExtractLoioEverywhere(resultId) == SelectSeq(resultId, LAMBDA t : t # Prefix)

\* const loio = resultId.replace('sap-help-', '')
ExtractLoio(resultId) == ReplaceFirst(resultId, Prefix)

\* if (!loio || loio === resultId) throw
InvalidResultId(resultId) ==
  LET loio == ExtractLoio(resultId) IN loio = <<>> \/ loio = resultId

\* id: `sap-help-${hit.loio}`
ResultId(loio) == <<Prefix>> \o loio

\* toQuery: entries whose value is undefined, null or "" are dropped
toQuery(params) ==
  LET keep(i) == ~Falsy(params[i][2])
      F[i \in 0..Len(params)] ==
        IF i = 0 THEN <<>>
        ELSE IF keep(i) THEN Append(F[i - 1], params[i]) ELSE F[i - 1]
  IN F[Len(params)]

\* A URL is its origin token (when absolute) followed by its path segments.
IsAbsolute(url) == Len(url) > 0 /\ url[1] \in {"http://", "https://", BASE}

ensureAbsoluteUrl(url) == IF IsAbsolute(url) THEN url ELSE <<BASE>> \o url

\* new URL(urlOrPath, BASE).pathname.split("/").filter(Boolean)
PathParts(url) == IF IsAbsolute(url) THEN Tail(url) ELSE url

ParseFails(url) ==
  LET parts == PathParts(url) IN Len(parts) < 4 \/ parts[1] # "docs"

parseDocsPathParts(url) ==
  LET parts == PathParts(url)
  IN [productUrlSeg |-> <<parts[2]>>, deliverableLoio |-> <<parts[3]>>]

\* ------------------------------------------------------------ truncate.ts
\* A content string is a sequence of one-character strings; a character the
\* lexer cannot hold in a string literal is written by its code point
\* ("U+0060" is the backtick).
MAX_CONTENT_LENGTH == 75000

IsWhitespace(c) == c \in {" ", "\n", "\t", "\r"}

\* number of consecutive characters of s from position i on that are in set
RunLength(s, i, set) ==
  LET R[p \in 1..(Len(s) + 1)] ==
        IF p > Len(s) \/ s[p] \notin set THEN 0 ELSE 1 + R[p + 1]
  IN IF i > Len(s) THEN 0 ELSE R[i]

HasAt(s, i, lit) ==
  /\ i + Len(lit) - 1 <= Len(s)
  /\ \A k \in 1..Len(lit) : s[i + k - 1] = lit[k]

\* naturalBreakPatterns, in the order the code tries them
naturalBreakPatterns ==
  <<"paragraph", "heading", "codeBlockEnd", "rule", "sentence">>

\* length of the match of the pattern that starts at position i, 0 if none
MatchLengthAt(s, i, pattern) ==
  CASE pattern = "paragraph" ->                             \* two newlines
         IF HasAt(s, i, <<"\n", "\n">>) THEN 2 ELSE 0
    [] pattern = "heading" ->                               \* newline, one to six #, one whitespace
         LET k == RunLength(s, i + 1, {"#"})
         IN IF /\ s[i] = "\n"
               /\ k >= 1
               /\ k <= 6
               /\ i + 1 + k <= Len(s)
               /\ IsWhitespace(s[i + 1 + k])
            THEN k + 2 ELSE 0
    [] pattern = "codeBlockEnd" ->                          \* newline, three backticks, newline
         IF HasAt(s, i, <<"\n", "U+0060", "U+0060", "U+0060", "\n">>) THEN 5 ELSE 0
    [] pattern = "rule" ->                                  \* newline, three dashes, newline
         IF HasAt(s, i, <<"\n", "-", "-", "-", "\n">>) THEN 5 ELSE 0
    [] pattern = "sentence" ->                              \* a dot, then whitespace
         LET w == RunLength(s, i + 1, {" ", "\n", "\t", "\r"})
         IN IF s[i] = "." /\ w >= 1 THEN 1 + w ELSE 0

\* Array.from(s.matchAll(pattern)): the non-overlapping matches, left to
\* right, each with its 0-based index and its length
matchAll(s, pattern) ==
  LET M[p \in 1..(Len(s) + 1)] ==
        IF p > Len(s) THEN <<>>
        ELSE LET n == MatchLengthAt(s, p, pattern)
             IN IF n > 0
                THEN <<[index |-> p - 1, length |-> n]>> \o M[p + n]
                ELSE M[p + 1]
  IN M[1]

\* mutant of StartLength: 0.9 for 0.6
StartLengthNineTenths(maxLength) == (maxLength * 9) \div 10

\* Math.floor(maxLength * 0.6)
StartLength(maxLength) == (maxLength * 3) \div 5

\* Math.floor(maxLength * 0.2)
EndLength(maxLength) == maxLength \div 5

\* the loop over the patterns that snaps the head back to a boundary: only
\* the last match of a pattern counts, and only past 80% of the head budget
RECURSIVE SnapStart(_, _, _)
SnapStart(startPortion, startLength, k) ==
  IF k > Len(naturalBreakPatterns) THEN startPortion
  ELSE LET matches == matchAll(startPortion, naturalBreakPatterns[k])
       IN IF /\ Len(matches) > 0
             /\ matches[Len(matches)].index # 0
             /\ 5 * matches[Len(matches)].index > 4 * startLength
          THEN SubSeq(startPortion, 1,
                      matches[Len(matches)].index + matches[Len(matches)].length)
          ELSE SnapStart(startPortion, startLength, k + 1)

StartPortion(content, maxLength) ==
  SnapStart(SubSeq(content, 1, StartLength(maxLength)), StartLength(maxLength), 1)

\* content.substring(content.length - endLength)
RawEndPortion(content, maxLength) ==
  SubSeq(content, Len(content) - EndLength(maxLength) + 1, Len(content))

\* endPortion.match(pattern): every pattern carries the g flag, so match()
\* returns the plain array of the matched substrings (null when there is
\* none). That array has no index property: match.index is undefined.
match(endPortion, pattern) ==
  [isNull |-> Len(matchAll(endPortion, pattern)) = 0, indexDefined |-> FALSE]

\* the loop over the patterns that snaps the tail forward past a boundary
RECURSIVE SnapEnd(_, _, _)
SnapEnd(endPortion, endLength, k) ==
  IF k > Len(naturalBreakPatterns) THEN endPortion
  ELSE LET m == match(endPortion, naturalBreakPatterns[k])
           first == matchAll(endPortion, naturalBreakPatterns[k])[1]
       IN IF /\ ~m.isNull
             /\ m.indexDefined
             /\ 5 * first.index < endLength
          THEN SubSeq(endPortion, first.index + first.length + 1, Len(endPortion))
          ELSE SnapEnd(endPortion, endLength, k + 1)

EndPortion(content, maxLength) ==
  SnapEnd(RawEndPortion(content, maxLength), EndLength(maxLength), 1)

\* the decimal digits of n >= 0
RECURSIVE Digits(_)
Digits(n) ==
  IF n < 10 THEN <<ToString(n)>> ELSE Append(Digits(n \div 10), ToString(n % 10))

\* Number.prototype.toLocaleString(): the digits in groups of three
RECURSIVE toLocaleString(_)
toLocaleString(n) ==
  IF n < 1000 THEN Digits(n)
  ELSE LET low == Digits(n % 1000)
           pad == IF Len(low) = 1 THEN <<"0", "0">>
                  ELSE IF Len(low) = 2 THEN <<"0">> ELSE <<>>
       IN toLocaleString(n \div 1000) \o <<",">> \o pad \o low

\* Math.round(a / b) for a >= 0, b > 0
Round(a, b) == (2 * a + b) \div (2 * b)

\* the notice up to the original length (54 UTF-16 code units)
NoticeHead ==
  <<"\n", "\n", "-", "-", "-", "\n", "\n", "U+26A0", "U+FE0F", " ", "*", "*",
    "C", "o", "n", "t", "e", "n", "t", " ", "T", "r", "u", "n", "c", "a",
    "t", "e", "d", "*", "*", "\n", "\n", "T", "h", "e", " ", "f", "u", "l",
    "l", " ", "c", "o", "n", "t", "e", "n", "t", " ", "w", "a", "s", " ">>

\* between the original length and the token estimate (27 UTF-16 code units)
NoticeTokens ==
  <<" ", "c", "h", "a", "r", "a", "c", "t", "e", "r", "s", " ", "(", "a",
    "p", "p", "r", "o", "x", "i", "m", "a", "t", "e", "l", "y", " ">>

\* between the token estimate and the omitted count (43 UTF-16 code units)
NoticeOmitted ==
  <<" ", "t", "o", "k", "e", "n", "s", ")", ".", "\n", "F", "o", "r", " ",
    "r", "e", "a", "d", "a", "b", "i", "l", "i", "t", "y", " ", "a", "n",
    "d", " ", "p", "e", "r", "f", "o", "r", "m", "a", "n", "c", "e", ",",
    " ">>

\* between the omitted count and the percentage (13 UTF-16 code units)
NoticePercent ==
  <<" ", "c", "h", "a", "r", "a", "c", "t", "e", "r", "s", " ", "(">>

\* the notice after the percentage (134 UTF-16 code units)
NoticeTail ==
  <<"%", ")", " ", "h", "a", "v", "e", " ", "b", "e", "e", "n", " ", "o",
    "m", "i", "t", "t", "e", "d", " ", "f", "r", "o", "m", " ", "t", "h",
    "e", " ", "m", "i", "d", "d", "l", "e", " ", "s", "e", "c", "t", "i",
    "o", "n", ".", "\n", "\n", "T", "h", "e", " ", "b", "e", "g", "i", "n",
    "n", "i", "n", "g", " ", "a", "n", "d", " ", "e", "n", "d", " ", "o",
    "f", " ", "t", "h", "e", " ", "d", "o", "c", "u", "m", "e", "n", "t",
    " ", "a", "r", "e", " ", "p", "r", "e", "s", "e", "r", "v", "e", "d",
    " ", "a", "b", "o", "v", "e", " ", "a", "n", "d", " ", "b", "e", "l",
    "o", "w", " ", "t", "h", "i", "s", " ", "n", "o", "t", "i", "c", "e",
    ".", "\n", "\n", "-", "-", "-", "\n", "\n">>


OmittedChars(content, maxLength) ==
  Len(content) - (Len(StartPortion(content, maxLength)) + Len(EndPortion(content, maxLength)))

truncationNotice(originalLength, omittedChars) ==
  NoticeHead \o toLocaleString(originalLength)
    \o NoticeTokens \o Digits(Round(originalLength, 4))
    \o NoticeOmitted \o toLocaleString(omittedChars)
    \o NoticePercent \o Digits(Round(omittedChars * 100, originalLength))
    \o NoticeTail

truncateContent(content, maxLength) ==
  IF Len(content) <= maxLength
  THEN [content |-> content,
        wasTruncated |-> FALSE,
        originalLength |-> Len(content),
        truncatedLength |-> Len(content)]
  ELSE LET truncatedContent ==
             StartPortion(content, maxLength)
               \o truncationNotice(Len(content), OmittedChars(content, maxLength))
               \o EndPortion(content, maxLength)
       IN [content |-> truncatedContent,
           wasTruncated |-> TRUE,
           originalLength |-> Len(content),
           truncatedLength |-> Len(truncatedContent)]

\* -------------------------------------------------------------- sapHelp.ts
\* Markup is a sequence of tokens: a tag, a whitespace character or a word.
ScriptOpen == {"<script>", "<style>"}

ScriptClose(t) == IF t = "<script>" THEN "</script>" ELSE "</style>"

\* .replace(/<script[^>]*>[\s\S]*?<\/script>/gi, '') and the same for style:
\* a block is dropped with its contents, an unclosed opening tag stays
RECURSIVE StripBlocks(_)
StripBlocks(html) ==
  IF html = <<>> THEN <<>>
  ELSE IF /\ Head(html) \in ScriptOpen
          /\ \E i \in 2..Len(html) : html[i] = ScriptClose(Head(html))
       THEN LET i == CHOOSE k \in 2..Len(html) :
                       /\ html[k] = ScriptClose(Head(html))
                       /\ \A j \in 2..(k - 1) : html[j] # ScriptClose(Head(html))
            IN StripBlocks(SubSeq(html, i + 1, Len(html)))
       ELSE <<Head(html)>> \o StripBlocks(Tail(html))

\* the replacement of one tag by the chain of replace() calls
TagText(t) ==
  CASE t \in {"<h1>", "<h2>", "<h3>", "<h4>", "<h5>", "<h6>"} ->
         <<"\n">> \o [i \in 1..(CHOOSE n \in 1..6 : t = "<h" \o ToString(n) \o ">") |-> "#"]
                  \o <<" ">>
    [] t \in {"</h1>", "</h2>", "</h3>", "</h4>", "</h5>", "</h6>"} -> <<"\n">>
    [] t \in {"<p>", "</p>", "<br>", "<br/>", "</li>"} -> <<"\n">>
    [] t = "<li>" -> <<"U+2022", " ">>
    [] t \in {"<code>", "</code>"} -> <<"U+0060">>
    [] t \in {"<pre>", "</pre>"} -> <<"\n", "U+0060", "U+0060", "U+0060", "\n">>
    [] OTHER -> <<>>

IsTag(t) == t \notin {" ", "\n", "\t", "\r"} /\ Len(t) > 1 /\ SubSeq(t, 1, 1) = "<"

RECURSIVE ReplaceTags(_)
ReplaceTags(html) ==
  IF html = <<>> THEN <<>>
  ELSE (IF IsTag(Head(html)) THEN TagText(Head(html)) ELSE <<Head(html)>>)
         \o ReplaceTags(Tail(html))

NewlinesIn(s) == Cardinality({ i \in 1..Len(s) : s[i] = "\n" })

\* .replace(/\s*\n\s*\n\s*/g, '\n\n'): a whitespace run holding two newlines
\* or more becomes one blank line
RECURSIVE CollapseBlankLines(_)
CollapseBlankLines(s) ==
  IF s = <<>> THEN <<>>
  ELSE LET w == RunLength(s, 1, {" ", "\n", "\t", "\r"})
       IN IF w = 0 THEN <<Head(s)>> \o CollapseBlankLines(Tail(s))
          ELSE (IF NewlinesIn(SubSeq(s, 1, w)) >= 2
                THEN <<"\n", "\n">> ELSE SubSeq(s, 1, w))
                 \o CollapseBlankLines(SubSeq(s, w + 1, Len(s)))

\* .replace(/^\s+|\s+$/g, '').trim()
RECURSIVE Trim(_)
Trim(s) ==
  IF s = <<>> THEN <<>>
  ELSE IF IsWhitespace(Head(s)) THEN Trim(Tail(s))
  ELSE IF IsWhitespace(s[Len(s)]) THEN Trim(SubSeq(s, 1, Len(s) - 1))
  ELSE s

\* const cleanText = bodyHtml.replace(...)...trim()
cleanText(bodyHtml) == Trim(CollapseBlankLines(ReplaceTags(StripBlocks(bodyHtml))))

\* --------------------------------------------------------- the remote side
\* SapHelpSearchResult (types.ts); an absent optional field is Undefined
Hit(loio, title, url, productId) ==
  [loio |-> loio, title |-> title, url |-> url, productId |-> productId,
   product |-> Undefined, version |-> <<"2023">>, versionId |-> Undefined,
   language |-> Undefined, snippet |-> Undefined]

DocsUrl == <<"docs", "PROD_SEG", "DELIVERABLE", "file.html">>

OtherUrl == <<BASE, "viewer", "file.html">>

\* the hits the portal may return: two for the same document, one whose URL
\* is off the /docs/ convention and that names no product, one with an empty
\* loio
HitA == Hit(<<"a">>, <<"T1">>, DocsUrl, Undefined)

HitA2 == Hit(<<"a">>, <<"T2">>, OtherUrl, <<"PROD_ID">>)

HitPrefixed == Hit(<<Prefix, "a">>, <<"T3">>, OtherUrl, Undefined)

\* a hit on the /docs/ convention that also names its product
HitB == Hit(<<"a">>, <<"T5">>, DocsUrl, <<"PROD_ID">>)

HitEmpty == Hit(<<>>, <<"T4">>, DocsUrl, <<"PROD_ID">>)

NoHit == Hit(Undefined, Undefined, Undefined, Undefined)

\* the result lists a search response may carry (an absent list reads as
\* the empty one: data?.data?.results || [])
ResultLists ==
  { s \in { <<>>, <<HitA>>, <<HitA2>>, <<HitB, HitA2>>, <<HitPrefixed, HitEmpty>>,
            <<HitA2, HitPrefixed, HitA>> } : Len(s) <= MaxResults }

StatusText(status) ==
  CASE status = 200 -> "OK"
    [] status = 404 -> "Not Found"
    [] status = 500 -> "Internal Server Error"

\* response.ok
Ok(response) == response.status \in 200..299

\* a fetch() that rejects has no response: status 0 stands for it
NetworkError == 0

FetchFailed == <<"fetch failed">>

\* what the search endpoint may answer
SearchResponses ==
  { [status |-> 200, results |-> r] : r \in ResultLists }
    \cup { [status |-> s, results |-> <<>>] : s \in {500, NetworkError} }

MetadataResponse(status, id, buildNo, filePath) ==
  [status |-> status, id |-> id, buildNo |-> buildNo, filePath |-> filePath]

\* what the metadata endpoint may answer
MetadataResponses ==
  { MetadataResponse(200, <<"DELIVERABLE_ID">>, <<"BUILD_7">>, <<"path", "file.html">>),
    MetadataResponse(200, <<"DELIVERABLE_ID">>, <<"BUILD_7">>, Undefined),
    MetadataResponse(200, <<"DELIVERABLE_ID">>, Undefined, <<"path", "file.html">>),
    MetadataResponse(200, Undefined, <<"BUILD_7">>, <<"path", "file.html">>),
    MetadataResponse(404, Undefined, Undefined, Undefined) }

NoMetadata == MetadataResponse(NetworkError, Undefined, Undefined, Undefined)

PageResponse(status, t, body) ==
  [status |-> status, t |-> t, deliverableTitle |-> Undefined, body |-> body]

NoPage == PageResponse(NetworkError, Undefined, Undefined)

\* what the page-content endpoint may answer
PageResponses ==
  { PageResponse(200, <<"Page", " ", "Title">>,
                 <<"<h1>", "Title", "</h1>", "<p>", "Hello", "<br/>", "World", "</p>">>),
    PageResponse(200, Undefined, <<>>),
    PageResponse(500, Undefined, Undefined) }

\* the free-text queries and the result ids the tools are called with
Queries == { <<"q">> }

ResultIds ==
  { <<Prefix, "a">>, <<Prefix, Prefix, "a">>, <<Prefix>>, <<"a">>,
    <<"x", Prefix, "a">> }

\* ------------------------------------------------------------------- state
VARIABLES
  cache,     \* global.sapHelpSearchCache: loio -> hit
  reqs,      \* the tool calls started so far, each with its locals
  content,   \* truncateContent: the text handed in
  maxLength, \* truncateContent: the budget handed in
  result     \* truncateContent: what it returned (NoResult before the call)

vars == <<cache, reqs, content, maxLength, result>>

server == <<cache, reqs>>

truncator == <<content, maxLength, result>>

\* the outcome of a tool call: pending until its promise settles
Pending == [state |-> "pending", results |-> <<>>, error |-> Undefined, text |-> Undefined]

Resolved(results, error, text) ==
  [state |-> "resolved", results |-> results, error |-> error, text |-> text]

\* getSapHelpContent's catch block: every failure is rethrown with the prefix
Rejected(message) ==
  [state |-> "rejected", results |-> <<>>,
   error |-> <<"Failed to get SAP Help content: ">> \o message, text |-> Undefined]

\* one request sent to the portal
Call(endpoint, params) == [endpoint |-> endpoint, query |-> toQuery(params)]

SearchCall(q) ==
  Call("elasticsearch",
       << <<"transtype", <<"standard,html,pdf,others">> >>,
          <<"state", <<"PRODUCTION,TEST,DRAFT">> >>,
          <<"product", <<>> >>,
          <<"version", <<>> >>,
          <<"q", q>>,
          <<"to", <<"19">> >>,
          <<"area", <<"content">> >>,
          <<"advancedSearch", <<"0">> >>,
          <<"excludeNotSearchable", <<"1">> >>,
          <<"language", <<"en-US">> >> >>)

\* ------------------------------------------------------------ searchSapHelp
\* `${hit.snippet || hit.title} (em dash) Product: ${...} (${...})`
Description(hit) ==
  OrElse(hit.snippet, hit.title)
    \o <<" ", "U+2014", " Product: ">> \o OrElse(hit.product, OrElse(hit.productId, <<"Unknown">>))
    \o <<" (">> \o OrElse(hit.version, OrElse(hit.versionId, <<"Latest">>)) \o <<")">>

\* one element of results.map((hit, index) => ({...}))
SearchResult(hit, index) ==
  [library_id |-> ResultId(hit.loio),
   id |-> ResultId(hit.loio),
   title |-> hit.title,
   url |-> ensureAbsoluteUrl(hit.url),
   snippet |-> Description(hit),
   loio |-> hit.loio,
   rank |-> index]

\* mutant of StoreHits: an entry already in the map is left as it is
StoreHitsFirstWins(map, results) ==
  LET keys == { results[i].loio : i \in 1..Len(results) }
      last(l) == CHOOSE i \in 1..Len(results) :
                   /\ results[i].loio = l
                   /\ \A j \in (i + 1)..Len(results) : results[j].loio # l
  IN [l \in (DOMAIN map) \cup keys |->
        IF l \in DOMAIN map THEN map[l] ELSE results[last(l)]]

\* mutant of StoreHits: the map is built afresh from each result list
StoreHitsInFreshMap(map, results) ==
  LET keys == { results[i].loio : i \in 1..Len(results) }
      last(l) == CHOOSE i \in 1..Len(results) :
                   /\ results[i].loio = l
                   /\ \A j \in (i + 1)..Len(results) : results[j].loio # l
  IN [l \in keys |-> results[last(l)]]

\* mutant of StoreHits: the loop stops one hit short
StoreAllButLast(map, results) ==
  LET kept == SubSeq(results, 1, Len(results) - 1)
      keys == { kept[i].loio : i \in 1..Len(kept) }
      last(l) == CHOOSE i \in 1..Len(kept) :
                   /\ kept[i].loio = l
                   /\ \A j \in (i + 1)..Len(kept) : kept[j].loio # l
  IN [l \in (DOMAIN map) \cup keys |->
        IF l \in keys THEN kept[last(l)] ELSE map[l]]

\* results.forEach(hit => cache.set(hit.loio, hit)): a later hit of the list
\* overwrites an earlier one with the same loio
StoreHits(map, results) ==
  LET keys == { results[i].loio : i \in 1..Len(results) }
      last(l) == CHOOSE i \in 1..Len(results) :
                   /\ results[i].loio = l
                   /\ \A j \in (i + 1)..Len(results) : results[j].loio # l
  IN [l \in (DOMAIN map) \cup keys |->
        IF l \in keys THEN results[last(l)] ELSE map[l]]

\* mutant of SearchOutcome: an empty result list is reported like a failure
SearchOutcomeEmptyAsFailure(query, response) ==
  IF response.status = NetworkError \/ (Ok(response) /\ Len(response.results) = 0)
  THEN Resolved(<<>>, <<"SAP Help search error: ">> \o FetchFailed, Undefined)
  ELSE IF ~Ok(response)
  THEN Resolved(<<>>,
                <<"SAP Help search error: ", "SAP Help search failed: ",
                  ToString(response.status), " ", StatusText(response.status)>>,
                Undefined)
  ELSE Resolved([i \in 1..Len(response.results) |-> SearchResult(response.results[i], i)],
                Undefined, Undefined)

\* what searchSapHelp returns once the response is there
SearchOutcome(query, response) ==
  IF response.status = NetworkError
  THEN Resolved(<<>>, <<"SAP Help search error: ">> \o FetchFailed, Undefined)
  ELSE IF ~Ok(response)
  THEN Resolved(<<>>,
                <<"SAP Help search error: ", "SAP Help search failed: ",
                  ToString(response.status), " ", StatusText(response.status)>>,
                Undefined)
  ELSE IF Len(response.results) = 0
  THEN Resolved(<<>>, <<"No SAP Help results found for \"">> \o query \o <<"\"">>,
                Undefined)
  ELSE Resolved([i \in 1..Len(response.results) |-> SearchResult(response.results[i], i)],
                Undefined, Undefined)

\* a tool call and its locals: pc is the await it is suspended at, calls the
\* requests it has sent, resps the statuses it has received, meta and page
\* the last metadata and page-content responses, known whether a search had
\* returned its result id before it started
NewRequest(kind, arg) ==
  [kind |-> kind, arg |-> arg, pc |-> "done", loio |-> Undefined, hit |-> NoHit,
   known |-> FALSE, calls |-> <<>>, resps |-> <<>>, meta |-> NoMetadata,
   page |-> NoPage, outcome |-> Pending]

\* searchSapHelp(query) up to its await fetch(searchUrl)
searchSapHelp(query) ==
  /\ Len(reqs) < MaxReqs
  /\ reqs' = Append(reqs, [NewRequest("search", query) EXCEPT
                             !.pc = "awaitSearch",
                             !.calls = <<SearchCall(query)>>])
  /\ UNCHANGED <<cache, truncator>>

\* searchSapHelp from the search response to its return
searchSapHelpResponse(p, response) ==
  /\ reqs[p].kind = "search"
  /\ reqs[p].pc = "awaitSearch"
  /\ reqs' = [reqs EXCEPT ![p] = [@ EXCEPT
                !.pc = "done",
                !.resps = Append(@, response.status),
                !.outcome = SearchOutcome(reqs[p].arg, response)]]
  /\ cache' = IF Ok(response) /\ Len(response.results) > 0
              THEN StoreHits(cache, response.results)
              ELSE cache
  /\ UNCHANGED truncator

\* -------------------------------------------------------- getSapHelpContent
\* const topic_url = `${hit.loio}.html`
TopicUrl(hit) == hit.loio \o <<".html">>

\* product_url after the try/catch around parseDocsPathParts(hit.url)
ProductUrl(hit) ==
  IF ParseFails(hit.url) THEN hit.productId
  ELSE OrElse(hit.productId, parseDocsPathParts(hit.url).productUrlSeg)

\* deliverable_url after the try/catch: left undefined when the parse throws
DeliverableUrl(hit) ==
  IF ParseFails(hit.url) THEN Undefined
  ELSE parseDocsPathParts(hit.url).deliverableLoio

\* mutant of UrlUnusable: a parse failure is fatal whatever the hit names
UrlUnusableWhenParseFails(hit) == ParseFails(hit.url)

\* the catch block rethrows when no product_url is known
UrlUnusable(hit) == ParseFails(hit.url) /\ Falsy(hit.productId)

MetadataCall(hit) ==
  Call("deliverableMetadata",
       << <<"product_url", ProductUrl(hit)>>,
          <<"topic_url", TopicUrl(hit)>>,
          <<"version", <<"LATEST">> >>,
          <<"loadlandingpageontopicnotfound", <<"true">> >>,
          <<"deliverable_url", DeliverableUrl(hit)>>,
          <<"language", OrElse(hit.language, <<"en-US">>)>>,
          <<"deliverableInfo", <<"1">> >>,
          <<"toc", <<"1">> >> >>)

\* const file_path = metadataData?.data?.filePath || topic_url
FilePath(metadata, hit) == OrElse(metadata.filePath, TopicUrl(hit))

\* mutant of MetadataIncomplete: the build number is not looked at
MetadataIncompleteIdOnly(metadata, hit) ==
  Falsy(metadata.id) \/ Falsy(FilePath(metadata, hit))

\* if (!deliverable_id || !buildNo || !file_path) throw
MetadataIncomplete(metadata, hit) ==
  Falsy(metadata.id) \/ Falsy(metadata.buildNo) \/ Falsy(FilePath(metadata, hit))

PageCall(metadata, hit) ==
  Call("pagecontent",
       << <<"deliverableInfo", <<"1">> >>,
          <<"deliverable_id", metadata.id>>,
          <<"buildNo", metadata.buildNo>>,
          <<"file_path", FilePath(metadata, hit)>> >>)

\* mutant of HttpError: the message leaves the status out
HttpErrorWithoutStatus(what, response) ==
  IF response.status = NetworkError THEN FetchFailed ELSE <<what>>

\* the error thrown on a response that is not ok, or by a fetch that rejects
HttpError(what, response) ==
  IF response.status = NetworkError THEN FetchFailed
  ELSE <<what, ToString(response.status), " ", StatusText(response.status)>>

\* pageData.data.currentPage.t || pageData.data.deliverable.title || hit.title
PageTitle(page, hit) == OrElse(page.t, OrElse(page.deliverableTitle, hit.title))

\* the lines **Source:** ... **Language:** of the rendered document
MetadataHeader(hit) ==
  <<"**Source:** SAP Help Portal", "\n", "**URL:** ">> \o ensureAbsoluteUrl(hit.url)
    \o <<"\n", "**Product:** ">> \o OrElse(hit.product, OrElse(hit.productId, <<"Unknown">>))
    \o <<"\n", "**Version:** ">> \o OrElse(hit.version, OrElse(hit.versionId, <<"Latest">>))
    \o <<"\n", "**Language:** ">> \o OrElse(hit.language, <<"en-US">>)
    \o <<"\n">>

NoContentText == "No content available for this page."

\* return `# ${title}\n\nNo content available for this page.`
Placeholder(title) == <<"#", " ">> \o title \o <<"\n", "\n", NoContentText>>

fullContent(title, hit, text) ==
  <<"#", " ">> \o title \o <<"\n", "\n">>
    \o MetadataHeader(hit)
    \o (IF Falsy(hit.snippet) THEN <<>> ELSE <<"**Summary:** ">> \o hit.snippet)
    \o <<"\n", "\n", "-", "-", "-", "\n", "\n">>
    \o text
    \o <<"\n", "\n", "-", "-", "-", "\n", "\n",
         "*This content is from the SAP Help Portal and represents official SAP documentation.*">>

\* mutant of Document: the placeholder is wrapped like a full document
DocumentAlwaysEnveloped(page, hit) ==
  truncateContent(fullContent(PageTitle(page, hit), hit,
                              IF Falsy(page.body) THEN <<NoContentText>>
                              ELSE cleanText(page.body)),
                  MAX_CONTENT_LENGTH).content

\* from const pageData = ... to return truncationResult.content
Document(page, hit) ==
  IF Falsy(page.body)
  THEN Placeholder(PageTitle(page, hit))
  ELSE truncateContent(fullContent(PageTitle(page, hit), hit, cleanText(page.body)),
                       MAX_CONTENT_LENGTH).content

\* the request once its hit is known: the metadata parameters are prepared
\* and the metadata request is sent, unless the hit's URL is unusable
WithHit(r, hit) ==
  IF UrlUnusable(hit)
  THEN [r EXCEPT !.pc = "done", !.hit = hit,
                 !.outcome = Rejected(<<"Could not determine product_url from hit; missing productId and unparsable url">>)]
  ELSE [r EXCEPT !.pc = "awaitMetadata", !.hit = hit,
                 !.calls = Append(@, MetadataCall(hit))]

\* some search has already returned an entry with this id
Returned(resultId) ==
  \E q \in 1..Len(reqs) :
    /\ reqs[q].kind = "search"
    /\ \E i \in 1..Len(reqs[q].outcome.results) : reqs[q].outcome.results[i].id = resultId

\* getSapHelpContent(resultId) up to its first await, or to its failure
getSapHelpContent(resultId) ==
  /\ Len(reqs) < MaxReqs
  /\ LET loio == ExtractLoio(resultId)
         r == [NewRequest("get", resultId) EXCEPT !.loio = loio,
                                                  !.known = Returned(resultId)]
     IN reqs' = Append(reqs,
          IF InvalidResultId(resultId)
          THEN [r EXCEPT !.outcome = Rejected(<<"Invalid SAP Help result ID. Use an ID from sap_help_search results.">>)]
          ELSE IF loio \in DOMAIN cache
          THEN WithHit(r, cache[loio])
          ELSE [r EXCEPT !.pc = "awaitSearch", !.calls = <<SearchCall(loio)>>])
  /\ UNCHANGED <<cache, truncator>>

\* mutant of Find: the first result is taken whatever its loio
FindFirst(results, loio) == IF Len(results) > 0 THEN results[1] ELSE NoHit

\* results.find(r => r.loio === loio)
Find(results, loio) ==
  IF \E i \in 1..Len(results) : results[i].loio = loio
  THEN results[CHOOSE i \in 1..Len(results) :
                 /\ results[i].loio = loio
                 /\ \A j \in 1..(i - 1) : results[j].loio # loio]
  ELSE NoHit

\* getSapHelpContent from the response of its own search to its next await
getSearchResponse(p, response) ==
  /\ reqs[p].kind = "get"
  /\ reqs[p].pc = "awaitSearch"
  /\ LET r == [reqs[p] EXCEPT !.resps = Append(@, response.status)]
         hit == Find(response.results, r.loio)
     IN reqs' = [reqs EXCEPT ![p] =
          IF ~Ok(response)
          THEN [r EXCEPT !.pc = "done",
                         !.outcome = Rejected(HttpError("Failed to find document: ", response))]
          ELSE IF hit = NoHit
          THEN [r EXCEPT !.pc = "done",
                         !.outcome = Rejected(<<"Document with loio ">> \o r.loio \o <<" not found">>)]
          ELSE WithHit(r, hit)]
  /\ UNCHANGED <<cache, truncator>>

\* getSapHelpContent from the metadata response to its next await
getMetadataResponse(p, response) ==
  /\ reqs[p].kind = "get"
  /\ reqs[p].pc = "awaitMetadata"
  /\ LET r == [reqs[p] EXCEPT !.resps = Append(@, response.status), !.meta = response]
     IN reqs' = [reqs EXCEPT ![p] =
          IF ~Ok(response)
          THEN [r EXCEPT !.pc = "done",
                         !.outcome = Rejected(HttpError("Metadata request failed: ", response))]
          ELSE IF MetadataIncomplete(response, r.hit)
          THEN [r EXCEPT !.pc = "done",
                         !.outcome = Rejected(<<"Missing required metadata: deliverable_id, buildNo, or file_path">>)]
          ELSE [r EXCEPT !.pc = "awaitPage",
                         !.calls = Append(@, PageCall(response, r.hit))]]
  /\ UNCHANGED <<cache, truncator>>

\* getSapHelpContent from the page-content response to its return
getPageResponse(p, response) ==
  /\ reqs[p].kind = "get"
  /\ reqs[p].pc = "awaitPage"
  /\ LET r == [reqs[p] EXCEPT !.resps = Append(@, response.status), !.pc = "done",
                              !.page = response]
     IN reqs' = [reqs EXCEPT ![p] =
          IF ~Ok(response)
          THEN [r EXCEPT !.outcome = Rejected(HttpError("Page content request failed: ", response))]
          ELSE [r EXCEPT !.outcome = Resolved(<<>>, Undefined, Document(response, r.hit))]]
  /\ UNCHANGED <<cache, truncator>>

\* ----------------------------------------------------------- specification
NoResult ==
  [content |-> <<>>, wasTruncated |-> FALSE, originalLength |-> -1, truncatedLength |-> -1]

Init ==
  /\ cache = <<>>
  /\ reqs = <<>>
  /\ content = <<>>
  /\ maxLength = 0
  /\ result = NoResult

Next ==
  \/ \E query \in Queries : searchSapHelp(query)
  \/ \E p \in 1..Len(reqs), response \in SearchResponses : searchSapHelpResponse(p, response)
  \/ \E resultId \in ResultIds : getSapHelpContent(resultId)
  \/ \E p \in 1..Len(reqs), response \in SearchResponses : getSearchResponse(p, response)
  \/ \E p \in 1..Len(reqs), response \in MetadataResponses : getMetadataResponse(p, response)
  \/ \E p \in 1..Len(reqs), response \in PageResponses : getPageResponse(p, response)

Spec == Init /\ [][Next]_vars

\* ------------------------------------------- truncateContent on its own
\* the budgets tried: two smaller than the notice itself, one that has
\* room for every pattern in the snapping windows
Budgets == {10, 20, 50}

ContentLengths == {9, 11} \cup 50..MaxContentLength

Filler(n) == [i \in 1..n |-> "a"]

\* s with the characters after the first `at` replaced by those of snippet
Place(s, at, snippet) ==
  [i \in 1..Len(s) |->
     IF i > at /\ i <= at + Len(snippet) THEN snippet[i - at] ELSE s[i]]

\* the boundaries the patterns look for, and near misses of them
Snippets ==
  { <<>>, <<"\n", "\n">>, <<"\n", "#", " ">>, <<"\n", "#", "#", "\n", ".", " ">>,
    <<"\n", "U+0060", "U+0060", "U+0060", "\n">>, <<"\n", "-", "-", "-", "\n">>,
    <<".", " ", " ">>, <<".", "a", "\n">> }

TailSnippets == { <<>>, <<"\n", "\n">>, <<"\n", "#", "\t">>, <<".", " ">> }

\* a boundary placed around the end of the head slice and one placed around
\* the start of the tail slice
Contents ==
  { Place(Place(Filler(n), at, s), n - back, t) :
      n \in ContentLengths, at \in 22..29, s \in Snippets,
      back \in 9..12, t \in TailSnippets }

InitTruncate ==
  /\ cache = <<>>
  /\ reqs = <<>>
  /\ content \in Contents
  /\ maxLength \in Budgets
  /\ result = NoResult

Truncate ==
  /\ result = NoResult
  /\ result' = truncateContent(content, maxLength)
  /\ UNCHANGED <<content, maxLength, server>>

NextTruncate == Truncate

SpecTruncate == InitTruncate /\ [][NextTruncate]_vars

\* ------------------------------------------------------------------ claims
Gets == { p \in 1..Len(reqs) : reqs[p].kind = "get" }

Searches == { p \in 1..Len(reqs) : reqs[p].kind = "search" }

Endpoints(r) == [i \in 1..Len(r.calls) |-> r.calls[i].endpoint]

StartsWithPrefix(resultId) == Len(resultId) > 0 /\ resultId[1] = Prefix

Contains(s, sub) == \E i \in 1..(Len(s) + 1) : HasAt(s, i, sub)

InvalidIdError ==
  <<"Failed to get SAP Help content: ",
    "Invalid SAP Help result ID. Use an ID from sap_help_search results.">>

\* C1: a retrieval whose identifier does not start with "sap-help-" (also
\* one that holds "sap-help-" further in) fails with the invalid-identifier
\* error and has sent no request to the portal.
C1_MalformedIdFailsBeforeAnyCall ==
  \A p \in Gets :
    ~StartsWithPrefix(reqs[p].arg) =>
      /\ reqs[p].outcome.state = "rejected"
      /\ reqs[p].outcome.error = InvalidIdError
      /\ reqs[p].calls = <<>>

\* the retrieval took its hit from the cache: it has a hit for its loio and
\* sent no request to the search endpoint
ResolvedFromCache(r) ==
  /\ r.hit # NoHit
  /\ r.hit.loio = r.loio
  /\ \A i \in 1..Len(r.calls) : r.calls[i].endpoint # "elasticsearch"

\* C2 as stated: once a search has returned an entry with id "sap-help-" + L,
\* every later retrieval of that id takes the hit from the cache and sends
\* no search request.
C2_ReturnedIdResolvedFromCache ==
  \A p \in Gets : reqs[p].known => ResolvedFromCache(reqs[p])

\* C2 amended: the same for every hit whose loio L is a non-empty string.
C2_ReturnedNonEmptyLoioResolvedFromCache ==
  \A p \in Gets :
    (reqs[p].known /\ reqs[p].arg # <<Prefix>>) => ResolvedFromCache(reqs[p])

C2_Witness ==
  \E p \in Gets :
    /\ reqs[p].known
    /\ reqs[p].arg # <<Prefix>>
    /\ Len(reqs[p].calls) > 0
    /\ reqs[p].calls[1].endpoint = "deliverableMetadata"

StageOrders ==
  { <<>>, <<"elasticsearch">>, <<"elasticsearch", "deliverableMetadata">>,
    <<"elasticsearch", "deliverableMetadata", "pagecontent">>,
    <<"deliverableMetadata">>, <<"deliverableMetadata", "pagecontent">> }

HttpFailure(status) == status # NetworkError /\ status \notin 200..299

\* C3: a retrieval sends its requests in the order search (only first),
\* metadata, page content, each at most once and each only after the answer
\* to the one before; an answer with a non-success status ends the retrieval
\* with an error that carries the status code and text, no later request is
\* sent and no document text is returned.
C3_StagesSequentialAndFatal ==
  \A p \in Gets :
    LET r == reqs[p]
    IN /\ Endpoints(r) \in StageOrders
       /\ Len(r.resps) <= Len(r.calls)
       /\ Len(r.calls) <= Len(r.resps) + 1
       /\ \A i \in 1..Len(r.resps) :
            HttpFailure(r.resps[i]) =>
              /\ r.pc = "done"
              /\ r.outcome.state = "rejected"
              /\ ToString(r.resps[i]) \in Range(r.outcome.error)
              /\ StatusText(r.resps[i]) \in Range(r.outcome.error)
              /\ Len(r.calls) = i
              /\ r.outcome.text = Undefined

C3_Witness ==
  \E p \in Gets :
    /\ Endpoints(reqs[p]) = <<"elasticsearch", "deliverableMetadata">>
    /\ reqs[p].resps = <<200, 404>>
    /\ reqs[p].outcome.state = "rejected"

IncompleteMetadataError ==
  <<"Failed to get SAP Help content: ",
    "Missing required metadata: deliverable_id, buildNo, or file_path">>

\* C4: when the metadata answer (status ok) lacks the deliverable id or the
\* build number, the retrieval fails with the incomplete-metadata error and
\* never calls the page-content endpoint; when only the file path is
\* missing, the page-content request is sent with file_path = loio + ".html".
C4_IncompleteMetadataFatal ==
  \A p \in Gets :
    LET r == reqs[p]
    IN Ok(r.meta) =>
         IF Falsy(r.meta.id) \/ Falsy(r.meta.buildNo)
         THEN /\ r.outcome.state = "rejected"
              /\ r.outcome.error = IncompleteMetadataError
              /\ "pagecontent" \notin Range(Endpoints(r))
         ELSE /\ r.calls[Len(Endpoints(r))].endpoint = "pagecontent"
              /\ <<"file_path",
                   IF Falsy(r.meta.filePath) THEN r.loio \o <<".html">>
                   ELSE r.meta.filePath>> \in Range(r.calls[Len(r.calls)].query)

C4_Witness ==
  \E p, q \in Gets :
    /\ Ok(reqs[p].meta) /\ Falsy(reqs[p].meta.buildNo) /\ reqs[p].pc = "done"
    /\ Ok(reqs[q].meta) /\ ~Falsy(reqs[q].meta.id) /\ ~Falsy(reqs[q].meta.buildNo)
    /\ Falsy(reqs[q].meta.filePath)

NotFoundError(loio) ==
  <<"Failed to get SAP Help content: ", "Document with loio ">> \o loio \o <<" not found">>

Researched(r) == Len(r.calls) > 0 /\ r.calls[1].endpoint = "elasticsearch"

\* C5: a retrieval that misses the cache sends one search request whose
\* query text is the bare loio, goes on only with a hit whose loio equals
\* it, and otherwise (empty list, no exact match) fails with the
\* document-not-found error without calling the metadata or the
\* page-content endpoint.
C5_ResearchByLoio ==
  \A p \in Gets :
    LET r == reqs[p]
    IN Researched(r) =>
         /\ <<"q", r.loio>> \in Range(r.calls[1].query)
         /\ StartsWithPrefix(r.arg) => r.loio = Tail(r.arg)
         /\ Cardinality({ i \in 1..Len(r.calls) : r.calls[i].endpoint = "elasticsearch" }) = 1
         /\ Len(r.calls) > 1 => r.hit.loio = r.loio
         /\ (Len(r.resps) >= 1 /\ r.resps[1] = 200 /\ r.hit = NoHit) =>
              /\ r.pc = "done"
              /\ r.outcome.state = "rejected"
              /\ r.outcome.error = NotFoundError(r.loio)
              /\ Len(r.calls) = 1
         /\ (Len(r.resps) >= 1 /\ r.resps[1] = 200 /\ r.hit # NoHit) => r.hit.loio = r.loio

C5_Witness ==
  \E p \in Gets :
    /\ Researched(reqs[p])
    /\ reqs[p].resps = <<200>>
    /\ reqs[p].hit = NoHit
    /\ reqs[p].outcome.error = NotFoundError(reqs[p].loio)

\* the page-content stage succeeded with an empty or absent body
EmptyPage(r) == r.pc = "done" /\ Ok(r.page) /\ Falsy(r.page.body)

\* C6 as stated: on an empty page body the retrieval resolves with a
\* placeholder that says no content is available and carries the title and
\* the metadata header of a full document.
C6_PlaceholderInEnvelope ==
  \A p \in Gets :
    EmptyPage(reqs[p]) =>
      /\ reqs[p].outcome.state = "resolved"
      /\ NoContentText \in Range(reqs[p].outcome.text)
      /\ Contains(reqs[p].outcome.text, PageTitle(reqs[p].page, reqs[p].hit))
      /\ Contains(reqs[p].outcome.text, MetadataHeader(reqs[p].hit))

\* C6 amended: on an empty page body the retrieval resolves with a
\* placeholder that is the title line, a blank line and the statement that
\* no content is available; it carries no metadata header.
C6_PlaceholderTitleOnly ==
  \A p \in Gets :
    EmptyPage(reqs[p]) =>
      /\ reqs[p].outcome.state = "resolved"
      /\ reqs[p].outcome.text =
           <<"#", " ">> \o PageTitle(reqs[p].page, reqs[p].hit)
             \o <<"\n", "\n", NoContentText>>
      /\ ~Contains(reqs[p].outcome.text, MetadataHeader(reqs[p].hit))

C6_Witness ==
  \E p \in Gets : EmptyPage(reqs[p]) /\ reqs[p].outcome.state = "resolved"

EmptySearch(r) == r.pc = "done" /\ r.resps = <<200>> /\ r.outcome.results = <<>>

FailedSearch(r) == r.pc = "done" /\ r.resps # <<200>>

\* C7: a search answered with zero hits resolves with an empty list and a
\* message that names the query; a failed search (bad status, exception)
\* resolves with a different message; neither changes the cache.
C7_EmptySearchIsNotAFailure ==
  /\ [](\A p \in Searches :
          /\ EmptySearch(reqs[p]) =>
               /\ reqs[p].outcome.state = "resolved"
               /\ reqs[p].outcome.error =
                    <<"No SAP Help results found for \"">> \o reqs[p].arg \o <<"\"">>
          /\ FailedSearch(reqs[p]) =>
               /\ reqs[p].outcome.state = "resolved"
               /\ reqs[p].outcome.results = <<>>
               /\ reqs[p].outcome.error # Undefined
               /\ \A query \in Queries :
                    reqs[p].outcome.error #
                      <<"No SAP Help results found for \"">> \o query \o <<"\"">>)
  /\ [][\A p \in 1..Len(reqs) :
          (/\ reqs[p].kind = "search"
           /\ reqs[p].pc = "awaitSearch"
           /\ reqs'[p].pc = "done"
           /\ reqs'[p].outcome.results = <<>>) => cache' = cache]_vars

\* an empty search after one that filled the cache
C7_Witness ==
  \E p, q \in Searches :
    /\ reqs[q].outcome.results # <<>>
    /\ EmptySearch(reqs[p])
    /\ cache # <<>>

\* C8: for content longer than the budget, truncateContent reports
\* wasTruncated, truncatedLength is the length of the returned content, and
\* that length is within the budget.
C8_TruncatedWithinBudget ==
  (result # NoResult /\ Len(content) > maxLength) =>
    /\ result.wasTruncated
    /\ result.truncatedLength = Len(result.content)
    /\ result.truncatedLength <= maxLength

\* where the notice starts and where it ends in a text
NoticeStarts(s) == { i \in 1..Len(s) : HasAt(s, i, NoticeHead) }

NoticeEnds(s) == { j \in 1..Len(s) : j >= Len(NoticeTail) /\ HasAt(s, j - Len(NoticeTail) + 1, NoticeTail) }

\* C9: for content longer than the budget the output is head + notice + tail
\* with exactly one notice, the head a strict prefix and the tail a strict
\* suffix of the content, and the two not overlapping in it.
C9_HeadNoticeTail ==
  (result # NoResult /\ Len(content) > maxLength) =>
    /\ Cardinality(NoticeStarts(result.content)) = 1
    /\ Cardinality(NoticeEnds(result.content)) = 1
    /\ LET out == result.content
           h == (CHOOSE i \in NoticeStarts(out) : TRUE) - 1
           e == CHOOSE j \in NoticeEnds(out) : TRUE
           t == Len(out) - e
       IN /\ h < e
          /\ SubSeq(out, 1, h) = SubSeq(content, 1, h)
          /\ SubSeq(out, e + 1, Len(out)) = SubSeq(content, Len(content) - t + 1, Len(content))
          /\ h < Len(content)
          /\ t < Len(content)
          /\ h + t < Len(content)
          /\ SubSeq(out, h + 1, e) = truncationNotice(Len(content), Len(content) - h - t)

\* the head was snapped back to a boundary
C9_Witness ==
  /\ result # NoResult
  /\ result.wasTruncated
  /\ maxLength = 50
  /\ \E h \in 25..29 :
       result.content =
         SubSeq(content, 1, h)
           \o truncationNotice(Len(content), Len(content) - h - 10)
           \o SubSeq(content, Len(content) - 9, Len(content))

\* C10: the entry of a hit with a non-empty loio has id "sap-help-" + loio,
\* and the loio a retrieval derives from that id, looks up in the cache and
\* searches for, is the hit's loio, also when the loio holds "sap-help-".
C10_IdRoundTrip ==
  \A s \in Searches :
    \A i \in 1..Len(reqs[s].outcome.results) :
      LET entry == reqs[s].outcome.results[i]
      IN entry.loio # <<>> =>
           /\ entry.id = <<Prefix>> \o entry.loio
           /\ \A g \in Gets :
                reqs[g].arg = entry.id =>
                  /\ reqs[g].loio = entry.loio
                  /\ reqs[g].outcome.error # InvalidIdError
                  /\ Researched(reqs[g]) =>
                       <<"q", entry.loio>> \in Range(reqs[g].calls[1].query)

C10_Witness ==
  \E s \in Searches, g \in Gets :
    \E i \in 1..Len(reqs[s].outcome.results) :
      /\ reqs[s].outcome.results[i].loio = <<Prefix, "a">>
      /\ reqs[g].arg = reqs[s].outcome.results[i].id
      /\ reqs[g].loio = <<Prefix, "a">>

UnparsableUrlError ==
  <<"Failed to get SAP Help content: ",
    "Could not determine product_url from hit; missing productId and unparsable url">>

\* the path of the hit's URL is docs/{product}/{deliverable}/{file}
OnDocsConvention(url) ==
  LET path == IF IsAbsolute(url) THEN Tail(url) ELSE url
  IN Len(path) >= 4 /\ path[1] = "docs"

PathSegment(url, k) == (IF IsAbsolute(url) THEN Tail(url) ELSE url)[k]

MetadataCalls(r) == { i \in 1..Len(r.calls) : r.calls[i].endpoint = "deliverableMetadata" }

Keys(query) == { query[i][1] : i \in 1..Len(query) }

\* C11: once a retrieval has its hit, the metadata request carries
\* product_url = the hit's productId when it has one, else the product
\* segment of the hit's URL; a URL off the docs/{product}/{deliverable}/{file}
\* convention is tolerated exactly when the hit has a productId (the request
\* is then sent without deliverable_url), and otherwise the retrieval fails
\* with the unparsable-URL error and sends no metadata request.
C11_ProductUrlFallback ==
  \A p \in Gets :
    LET r == reqs[p]
        hit == r.hit
    IN hit # NoHit =>
         IF ~OnDocsConvention(hit.url) /\ Falsy(hit.productId)
         THEN /\ r.pc = "done"
              /\ r.outcome.state = "rejected"
              /\ r.outcome.error = UnparsableUrlError
              /\ MetadataCalls(r) = {}
              /\ "pagecontent" \notin Range(Endpoints(r))
         ELSE /\ Cardinality(MetadataCalls(r)) = 1
              /\ r.outcome.error # UnparsableUrlError
              /\ \A i \in MetadataCalls(r) :
                   LET query == r.calls[i].query
                   IN /\ <<"product_url",
                           IF ~Falsy(hit.productId) THEN hit.productId
                           ELSE <<PathSegment(hit.url, 2)>> >> \in Range(query)
                      /\ IF OnDocsConvention(hit.url)
                         THEN <<"deliverable_url", <<PathSegment(hit.url, 3)>> >> \in Range(query)
                         ELSE "deliverable_url" \notin Keys(query)

\* one retrieval went on with a hit off the convention that names its
\* product, another failed on a hit off the convention that names none
C11_Witness ==
  \E p, q \in Gets :
    /\ ~OnDocsConvention(reqs[p].hit.url)
    /\ ~Falsy(reqs[p].hit.productId)
    /\ MetadataCalls(reqs[p]) # {}
    /\ reqs[q].hit # NoHit
    /\ ~OnDocsConvention(reqs[q].hit.url)
    /\ Falsy(reqs[q].hit.productId)
    /\ reqs[q].outcome.error = UnparsableUrlError

\* request p of the next state is a retrieval that this step started or
\* moved on
GetStepped(p) ==
  /\ reqs'[p].kind = "get"
  /\ (p > Len(reqs) \/ reqs'[p] # reqs[p])

\* this step is the one in which search p handles its response
SearchAnswered(p) ==
  /\ reqs[p].kind = "search"
  /\ reqs[p].pc = "awaitSearch"
  /\ reqs'[p].pc = "done"

\* the loios of the entries some searchSapHelp call has returned
ReturnedLoios ==
  UNION { { reqs[p].outcome.results[i].loio : i \in 1..Len(reqs[p].outcome.results) } :
            p \in Searches }

\* C12: no step removes a cache entry; a step that changes the cache is a
\* search handling its response, and every entry it writes is stored under
\* the loio of the hit it holds; a step of a retrieval (start, search,
\* metadata or page answer, success or failure) leaves the cache as it is,
\* so the cache only holds loios that searches returned, and a retrieval
\* that starts with a well-formed id whose loio is not cached sends a
\* search request for it, whatever earlier retrievals of that id found.
C12_CacheWrittenOnlyBySearch ==
  /\ [][/\ DOMAIN cache \subseteq DOMAIN cache'
        /\ cache' # cache => \E p \in 1..Len(reqs) : SearchAnswered(p)
        /\ \A l \in DOMAIN cache' :
             (l \notin DOMAIN cache \/ cache'[l] # cache[l]) => cache'[l].loio = l
        /\ \A p \in 1..Len(reqs') : GetStepped(p) => cache' = cache
        /\ \A p \in 1..Len(reqs') :
             (/\ GetStepped(p)
              /\ p > Len(reqs)
              /\ reqs'[p].outcome.error # InvalidIdError
              /\ reqs'[p].loio \notin DOMAIN cache)
               => reqs'[p].calls = <<SearchCall(reqs'[p].loio)>>]_vars
  /\ [](DOMAIN cache \subseteq ReturnedLoios)

\* the same id retrieved twice, found by re-search both times, and the
\* cache still empty
C12_Witness ==
  \E p, q \in Gets :
    /\ p < q
    /\ reqs[p].arg = reqs[q].arg
    /\ reqs[p].outcome.state = "resolved"
    /\ Researched(reqs[p]) /\ reqs[p].hit.loio = reqs[p].loio
    /\ Researched(reqs[q]) /\ reqs[q].hit.loio = reqs[q].loio
    /\ reqs[q].outcome.state = "resolved"
    /\ cache = <<>>

\* the last entry a search returned for a loio
LastEntry(results, l) ==
  results[CHOOSE i \in 1..Len(results) :
            /\ results[i].loio = l
            /\ \A j \in (i + 1)..Len(results) : results[j].loio # l]

\* the cached hit is the one the entry was made from
MadeFrom(entry, hit) ==
  /\ hit.loio = entry.loio
  /\ hit.title = entry.title
  /\ ensureAbsoluteUrl(hit.url) = entry.url

\* how far a request has come
Stage(pc) ==
  CASE pc = "awaitSearch" -> 1
    [] pc = "awaitMetadata" -> 2
    [] pc = "awaitPage" -> 3
    [] pc = "done" -> 4

\* the answer request p waits for can be handled now
CanGoOn(p) ==
  CASE reqs[p].pc = "awaitSearch" /\ reqs[p].kind = "search" ->
         ENABLED (\E response \in SearchResponses : searchSapHelpResponse(p, response))
    [] reqs[p].pc = "awaitSearch" /\ reqs[p].kind = "get" ->
         ENABLED (\E response \in SearchResponses : getSearchResponse(p, response))
    [] reqs[p].pc = "awaitMetadata" ->
         ENABLED (\E response \in MetadataResponses : getMetadataResponse(p, response))
    [] reqs[p].pc = "awaitPage" ->
         ENABLED (\E response \in PageResponses : getPageResponse(p, response))
    [] reqs[p].pc = "done" -> TRUE

\* C13: under every interleaving of the requests' steps, (1) the step in
\* which a search handles its response leaves, for every loio it returned,
\* the hit of its own last entry for that loio in the cache, whatever an
\* earlier search had stored there, so a search that has returned has all
\* its loios in the cache; (2) every cached hit is stored under its own
\* loio; (3) a request that waits for an answer can handle it whatever the
\* other requests wait for, and each step takes exactly one request
\* forward, so a request that never gets its answer holds up no other.
C13_InterleavedRequests ==
  /\ [][\A p \in 1..Len(reqs) :
          SearchAnswered(p) =>
            \A i \in 1..Len(reqs'[p].outcome.results) :
              LET l == reqs'[p].outcome.results[i].loio
              IN /\ l \in DOMAIN cache'
                 /\ MadeFrom(LastEntry(reqs'[p].outcome.results, l), cache'[l])]_vars
  /\ [](\A p \in Searches :
          \A i \in 1..Len(reqs[p].outcome.results) :
            reqs[p].outcome.results[i].loio \in DOMAIN cache)
  /\ [](\A l \in DOMAIN cache : cache[l].loio = l)
  /\ [](\A p \in 1..Len(reqs) : CanGoOn(p))
  /\ [][/\ \A p \in 1..Len(reqs) :
            reqs'[p] # reqs[p] => Stage(reqs'[p].pc) > Stage(reqs[p].pc)
        /\ Cardinality({ p \in 1..Len(reqs) : reqs'[p] # reqs[p] }) <= 1]_vars

\* two searches returned different hits for one loio, the one started
\* first was answered last (the other completed while it was waiting), and
\* the cache holds its hit
C13_Witness ==
  \E p, q \in Searches :
    /\ p < q
    /\ reqs[p].pc = "done" /\ reqs[q].pc = "done"
    /\ \E i \in 1..Len(reqs[p].outcome.results), j \in 1..Len(reqs[q].outcome.results) :
         LET e == reqs[p].outcome.results[i]
             f == reqs[q].outcome.results[j]
         IN /\ e.loio = f.loio
            /\ e.title # f.title
            /\ MadeFrom(LastEntry(reqs[p].outcome.results, e.loio), cache[e.loio])
            /\ ~MadeFrom(LastEntry(reqs[q].outcome.results, e.loio), cache[e.loio])

\* the last floor(0.2 * maxLength) characters of a text
RawTail(s, m) == SubSeq(s, Len(s) - (m \div 5) + 1, Len(s))

\* the patterns, in their order, whose first match in the raw tail starts
\* within the first 20% of the tail budget
BoundariesInWindow(raw, m) ==
  { k \in 1..Len(naturalBreakPatterns) :
      LET all == matchAll(raw, naturalBreakPatterns[k])
      IN Len(all) > 0 /\ 5 * all[1].index < m \div 5 }

\* the raw tail with everything up to and including that boundary dropped
SnappedTail(raw, m) ==
  LET k == CHOOSE k \in BoundariesInWindow(raw, m) :
             \A j \in BoundariesInWindow(raw, m) : k <= j
      first == matchAll(raw, naturalBreakPatterns[k])[1]
  IN SubSeq(raw, first.index + first.length + 1, Len(raw))

\* what follows the notice in a truncated text
TailSegment(out) ==
  SubSeq(out, (CHOOSE j \in NoticeEnds(out) : TRUE) + 1, Len(out))

\* C14 as stated: for content longer than the budget, when the raw tail
\* slice holds a natural boundary that starts within its first 20%, the
\* tail segment of the output is the slice after that boundary; when it
\* holds none, the tail segment is the raw slice.
C14_TailSnapsPastBoundary ==
  (result # NoResult /\ Len(content) > maxLength) =>
    LET raw == RawTail(content, maxLength)
    IN TailSegment(result.content) =
         IF BoundariesInWindow(raw, maxLength) # {}
         THEN SnappedTail(raw, maxLength)
         ELSE raw

====
